---- MODULE Spec2Model ----
(***************************************************************************)
(* The OSTree importer of pulp_ostree: plugins/importers/steps.py.         *)
(* One synchronisation run is the step Main with the children Create,      *)
(* Pull, Add and Clean; a repository is synchronised again by a new run    *)
(* against the same mirror (same feed, hence same storage path).           *)
(***************************************************************************)
EXTENDS Integers, Sequences, FiniteSets, TLC

\* ------------------------------------------------------------------ bounds
MaxBranches == 2
MaxRuns == 2
MaxCallbacks == 2
MaxKeys == 2

\* --------------------------------------------------------------- constants
\* 0600, set by os.chmod on key.pem; 0644, what open(path, 'w+') leaves under
\* the usual umask.
KeyMode == 384
DefaultMode == 420

BranchNames == {"b1", "b2"}
Reasons == {"r1", "r2"}

SHARED_STORAGE == "shared"
CONTENT_DIR == "content"
LINKS_DIR == "links"
WORKING_DIR == "work"
FEED == "feed"
REPO_ID == "repo"
PROXY_PORT == 3128
OTHER_REPO_ID == "repo2"
NoPath == <<>>

OST0001 == "OST0001"
OST0002 == "OST0002"
OST0003 == "OST0003"
LibError == "LibError"
OSError == "OSError"

\* ----------------------------------------------------------------- helpers
Range(s) == {s[i] : i \in 1..Len(s)}

SeqsUpTo(S, n) == UNION {[1..k -> S] : k \in 0..n}

Last(s) == s[Len(s)]

IsPrefix(s, t) == Len(s) <= Len(t) /\ \A i \in 1..Len(s) : s[i] = t[i]

RECURSIVE Perms(_)
Perms(S) ==
    IF S = {} THEN {<<>>}
    ELSE UNION {{<<x>> \o p : p \in Perms(S \ {x})} : x \in S}

\* ------------------------------------------------------- pulp_ostree.model
\* generate_remote_id: a digest of the feed URL.
generate_remote_id(url) == IF url = FEED THEN "sha-feed" ELSE "sha-other"

Digest(branch) == IF branch = "b1" THEN "sha-b1"
                  ELSE IF branch = "b2" THEN "sha-b2" ELSE "sha-x"

\* model.Unit: owner, branch, commit and the storage path under links/.
UnitStoragePath(remote_id, branch) ==
    <<SHARED_STORAGE, remote_id, LINKS_DIR, Digest(branch)>>

ModelUnit(remote_id, branch, commit) ==
    [remote_id |-> remote_id, branch |-> branch, commit |-> commit,
     storage_path |-> UnitStoragePath(remote_id, branch)]

\* ---------------------------------------------------------------- the run
VARIABLES
    config,      \* the importer configuration of the repository
    run,         \* number of the current synchronisation run
    pc,          \* position of Main: the child in progress, "done" or "failed"
    started,     \* children whose process_main was entered in this run, in order
    completed,   \* children that returned without raising in this run
    error,       \* the exception that reached the host in this run
    calls,       \* the library and system calls made in this run, in order
    pullIdx,     \* Pull.process_main: number of branches already pulled
    refs,        \* Add.process_main: the enumeration returned by list_refs
    addIdx,      \* Add.process_main: number of refs already processed
    saved,       \* units handed to conduit.save_unit in this run, in order
    workdir,     \* files of the working directory
    keyring,     \* key ids of the GPG home in the working directory
    dirs,        \* directories made under the shared storage
    mirror,      \* whether an OSTree repository exists at storage_path
    heads,       \* branch -> commit of the mirror ("" for no head)
    remotes,     \* remotes registered in the mirror
    fs,          \* link path -> what occupies it
    startMirror, \* whether the mirror existed when this run started
    createReg,   \* registration of repo_id right after this run's Create
    prevReg,     \* createReg of the previous run
    inflight,    \* positions of the branch list whose pull() has not returned
    callbacks,   \* progress callbacks the library made during that pull()
    reports,     \* progress reports published during that pull()
    active,      \* the repository whose run the variables above describe
    parked       \* the run of the other repository, when two run at once

vars == <<config, run, pc, started, completed, error, calls, pullIdx, refs,
          addIdx, saved, workdir, keyring, dirs, mirror, heads, remotes, fs,
          startMirror, createReg, prevReg, inflight, callbacks, reports,
          active, parked>>

fetchVars == <<inflight, callbacks, reports>>

otherRun == <<active, parked>>

\* Main.__init__
feed_url == config.feed
branches == config.branches
remote_id == generate_remote_id(feed_url)
storage_path == <<SHARED_STORAGE, remote_id, CONTENT_DIR>>
links_path == <<SHARED_STORAGE, remote_id, LINKS_DIR>>
RepoIdOf(a) == IF a = 1 THEN REPO_ID ELSE OTHER_REPO_ID
repo_id == RepoIdOf(active)

Children == <<"create", "pull", "add", "clean">>

\* ------------------------------------------------------------ exceptions
NoError == [code |-> "", key |-> "", val |-> NoPath, reason |-> ""]

PulpCodedException(code, key, val, reason) ==
    [code |-> code, key |-> key, val |-> val, reason |-> reason]

\* An exception no step catches reaches the host as it was raised.
Raw(kind, reason) == [code |-> kind, key |-> "", val |-> NoPath, reason |-> reason]

Call(op, arg, res) == [op |-> op, arg |-> arg, res |-> res]

Failed(c) == c.res # "ok"

\* ------------------------------------------------ the repository library
\* lib.Repository.open: fails on a path that holds no repository, and may
\* fail on an existing one for other reasons; every failure is a LibError.
OpenOutcomes(exists) ==
    IF exists THEN {"ok"} \cup Reasons ELSE {"notfound"}

Outcomes == {"ok"} \cup Reasons

\* lib.Remote.update: add or replace the remote named id.
RemoteUpdate(rs, id, ep) ==
    {r \in rs : r.id # id} \cup {[id |-> id, ep |-> ep, keys |-> {}]}

\* lib.Remote.import_key: trust the listed keys of the keyring.
RemoteImportKey(rs, id, key_ids) ==
    {IF r.id = id THEN [r EXCEPT !.keys = Range(key_ids)] ELSE r : r \in rs}

\* lib.Remote.delete: remove the remote named id.
RemoteDelete(rs, id) == {r \in rs : r.id # id}

Registered(rs, id) == {r \in rs : r.id = id}

NoReg == {}

\* gnupg: a blob that is not a key imports nothing; a key is kept once.
KeyIdOf(blob) == IF blob = "key1" THEN "K1"
                 ELSE IF blob = "key2" THEN "K2" ELSE ""

GpgImport(ring, blob) ==
    IF KeyIdOf(blob) = "" \/ KeyIdOf(blob) \in Range(ring) THEN ring
    ELSE Append(ring, KeyIdOf(blob))

RECURSIVE GpgImportAll(_, _)
GpgImportAll(ring, key_list) ==
    IF key_list = <<>> THEN ring
    ELSE GpgImportAll(GpgImport(ring, Head(key_list)), Tail(key_list))

\* ------------------------------------------------------------------ Remote
NoFile == [present |-> FALSE, content |-> "", mode |-> 0]

WriteFile(content, mode) == [present |-> TRUE, content |-> content, mode |-> mode]

WorkPath(name) == <<WORKING_DIR, name>>

\* Remote.ssl_key_path, ssl_cert_path, ssl_ca_path: the path returned.
ssl_key_path(cfg) == IF cfg.ssl_client_key # "" THEN WorkPath("key.pem") ELSE NoPath
ssl_cert_path(cfg) == IF cfg.ssl_client_cert # "" THEN WorkPath("cert.pem") ELSE NoPath
ssl_ca_path(cfg) == IF cfg.ssl_ca_cert # "" THEN WorkPath("ca.pem") ELSE NoPath

\* ssl_key_path, statement by statement: open(path, 'w+') creates the file
\* with the default mode, or empties it and keeps the mode it has;
KeyOpen(wd) ==
    [wd EXCEPT !["key.pem"] = IF @.present THEN [@ EXCEPT !.content = ""]
                              ELSE WriteFile("", DefaultMode)]

\* fp.write(key), on disk when the with block closes the file;
KeyWrite(wd, key) == [wd EXCEPT !["key.pem"].content = key]

\* Variant: the mode is left as open() made it.
KeyChmodNone(wd) == wd

\* os.chmod(path, 0600).
KeyChmod(wd) == [wd EXCEPT !["key.pem"].mode = KeyMode]

\* ssl_cert_path and ssl_ca_path: the files they write.
CertFiles(cfg, wd) ==
    [wd EXCEPT
        !["cert.pem"] = IF cfg.ssl_client_cert # ""
                        THEN WriteFile(cfg.ssl_client_cert, DefaultMode) ELSE @,
        !["ca.pem"] = IF cfg.ssl_ca_cert # ""
                      THEN WriteFile(cfg.ssl_ca_cert, DefaultMode) ELSE @]

\* ... and the files the three properties write on the way.
SslFiles(cfg, wd) ==
    CertFiles(cfg, IF cfg.ssl_client_key # ""
                   THEN KeyChmod(KeyWrite(KeyOpen(wd), cfg.ssl_client_key))
                   ELSE wd)

ssl_validation(cfg) == cfg.ssl_validation

\* Variant: the configured blobs are taken for the key ids.
GpgKeysConfigured(cfg, ring) == ring \o cfg.gpg_keys

\* Remote.gpg_keys: import every configured blob, read the key ids back.
gpg_keys(cfg, ring) == GpgImportAll(ring, cfg.gpg_keys)

\* str() of a port number: its decimal digits.
Digit(d) == CASE d = 0 -> "0" [] d = 1 -> "1" [] d = 2 -> "2" [] d = 3 -> "3"
              [] d = 4 -> "4" [] d = 5 -> "5" [] d = 6 -> "6" [] d = 7 -> "7"
              [] d = 8 -> "8" [] d = 9 -> "9"

RECURSIVE Str(_)
Str(n) == IF n < 10 THEN <<Digit(n)>> ELSE Append(Str(n \div 10), Digit(n % 10))

\* The truth value of a configured value: None and "" are false, and so is 0.
Truthy(v) == v # ""
TruthyPort(n) == n # 0

\* Variant: the credentials are put in as soon as a user is configured.
ProxyUrlUserOnly(cfg) ==
    IF Truthy(cfg.proxy_host) /\ TruthyPort(cfg.proxy_port)
    THEN IF Truthy(cfg.proxy_user)
         THEN <<cfg.proxy_user, ":", cfg.proxy_pass, "@", cfg.proxy_host, ":">>
              \o Str(cfg.proxy_port)
         ELSE <<cfg.proxy_host, ":">> \o Str(cfg.proxy_port)
    ELSE NoPath

\* Remote.proxy_url, as the pieces the joins put together.
proxy_url(cfg) ==
    IF Truthy(cfg.proxy_host) /\ TruthyPort(cfg.proxy_port)
    THEN IF Truthy(cfg.proxy_user) /\ Truthy(cfg.proxy_pass)
         THEN <<cfg.proxy_user, ":", cfg.proxy_pass, "@", cfg.proxy_host, ":">>
              \o Str(cfg.proxy_port)
         ELSE <<cfg.proxy_host, ":">> \o Str(cfg.proxy_port)
    ELSE NoPath

\* Variant: the remote is named after the feed.
RemoteFeedRemoteId == remote_id

\* Remote.remote_id: the remote is named after the repository.
RemoteRemoteId == repo_id

\* The fields Remote.add sets on lib.Remote before update().
Endpoint(cfg, key_ids) ==
    [url |-> cfg.feed,
     ssl_key_path |-> ssl_key_path(cfg),
     ssl_cert_path |-> ssl_cert_path(cfg),
     ssl_ca_path |-> ssl_ca_path(cfg),
     ssl_validation |-> ssl_validation(cfg),
     gpg_validation |-> Len(key_ids) > 0,
     proxy_url |-> proxy_url(cfg)]

\* Remote.add with update() ending u and import_key() ending k:
\* the calls made, the remotes left and the LibError raised ("" for none).
RemoteAdd(cfg, rs, key_ids, u, k) ==
    LET id == RemoteRemoteId
        upd == Call("update", <<id>>, u)
        imp == Call("import_key", <<id>>, k)
        rs1 == RemoteUpdate(rs, id, Endpoint(cfg, key_ids))
    IN  IF u # "ok" THEN [calls |-> <<upd>>, remotes |-> rs, raised |-> u]
        ELSE IF key_ids = <<>> THEN [calls |-> <<upd>>, remotes |-> rs1, raised |-> ""]
        ELSE IF k # "ok" THEN [calls |-> <<upd, imp>>, remotes |-> rs1, raised |-> k]
        ELSE [calls |-> <<upd, imp>>,
              remotes |-> RemoteImportKey(rs1, id, key_ids), raised |-> ""]

\* ------------------------------------------------------------------- Main
\* Variant: Pull is left out of the children.
NextChildSkipsPull(s) ==
    IF s = "create" THEN "add"
    ELSE IF s = "add" THEN "clean"
    ELSE "done"

\* PluginStep runs the children in the order Main.__init__ added them.
NextChild(s) ==
    IF s = "create" THEN "pull"
    ELSE IF s = "pull" THEN "add"
    ELSE IF s = "add" THEN "clean"
    ELSE "done"

\* Variant: Clean runs as a finalizer after a child raised.
AfterRaiseRunsClean(s) == IF s = "clean" THEN "failed" ELSE "clean"

\* An exception raised by a child propagates out of Main: no later child runs.
AfterRaise(s) == "failed"

Enter(s) == Append(started, s)

\* ----------------------------------------------------------------- Create
\* Variant: create() is called whatever open() returned.
NeedCreateAlways(o) == TRUE

\* Create._init_repository: create() follows any LibError of open().
NeedCreate(o) == o # "ok"

\* The LibError, if any, that leaves the try block of _init_repository.
InitRepository(o, c, u, k) ==
    LET ring == gpg_keys(config, keyring)
        op == Call("open", storage_path, o)
        cr == Call("create", storage_path, c)
        pre == IF NeedCreate(o) THEN <<op, cr>> ELSE <<op>>
        add == RemoteAdd(config, remotes, ring, u, k)
    IN  IF NeedCreate(o) /\ c # "ok"
        THEN [calls |-> pre, mirror |-> mirror, remotes |-> remotes,
              keyring |-> keyring, workdir |-> workdir, raised |-> c]
        ELSE [calls |-> pre \o add.calls,
              mirror |-> IF NeedCreate(o) THEN TRUE ELSE mirror,
              remotes |-> add.remotes,
              keyring |-> ring, workdir |-> SslFiles(config, workdir),
              raised |-> add.raised]

CreateError(reason) == PulpCodedException(OST0001, "path", storage_path, reason)

Create ==
    /\ pc = "create"
    /\ \E o \in OpenOutcomes(mirror) :
       \E c \in IF NeedCreate(o) THEN Outcomes ELSE {"ok"} :
       \E u \in IF c = "ok" THEN Outcomes ELSE {"ok"} :
       \E k \in IF u = "ok" THEN Outcomes ELSE {"ok"} :
         LET r == InitRepository(o, c, u, k) IN
         /\ started' = Enter("create")
         /\ dirs' = dirs \cup {storage_path, links_path}
         /\ calls' = calls \o r.calls
         /\ mirror' = r.mirror
         /\ remotes' = r.remotes
         /\ keyring' = r.keyring
         /\ workdir' = r.workdir
         /\ IF r.raised = ""
            THEN /\ pc' = NextChild("create")
                 /\ completed' = completed \cup {"create"}
                 /\ error' = error
                 /\ createReg' = Registered(r.remotes, repo_id)
            ELSE /\ pc' = AfterRaise("create")
                 /\ error' = CreateError(r.raised)
                 /\ UNCHANGED <<completed, createReg>>
    /\ UNCHANGED <<config, run, pullIdx, refs, addIdx, saved, heads, fs,
                   startMirror, prevReg>>
    /\ UNCHANGED <<fetchVars, otherRun>>

\* ------------------------------------------------------------------- Pull
\* Variant: the LibError of pull() is swallowed and the loop goes on.
PullNeverRaises(res) == FALSE

\* Pull._pull: a LibError of pull() is raised again as OST0002, which ends
\* the loop of process_main.
PullRaises(res) == res # "ok"

PullError(branch_id, reason) ==
    PulpCodedException(OST0002, "branch", <<branch_id>>, reason)

\* Variant: the fetch names the remote after the feed.
PullFeedRemoteId == remote_id

\* The remote every pull names.
PullRemoteId == repo_id

\* lib.Repository.pull: a successful pull leaves the branch head of the feed
\* in the mirror.
FeedHead == "c2"

Pulled(hs, branch_id) == [hs EXCEPT ![branch_id] = FeedHead]

\* Variant: a fetch may start while another is in progress.
MayPullAlways == TRUE

\* Pull.process_main: the loop calls _pull for one branch and goes on when it
\* has returned.
MayPull == inflight = {}

\* Pull._pull.report_progress: the details of one callback.
ProgressDetails(branch_id, report) ==
    <<"branch: ", branch_id, " fetching ", Str(report.fetched), "/",
      Str(report.requested), " ", Str(report.percent), "%">>

\* Variant: a report replaces the one before it.
ReportProgressCoalesced(reps, details) == <<[details |-> details, force |-> TRUE]>>

\* ... published at once: self.report_progress(force=True).
ReportProgress(reps, details) ==
    Append(reps, [details |-> details, force |-> TRUE])

\* What the callbacks of a fetch carry: the objects fetched so far, of the
\* objects requested, the n-th callback reporting the n-th object.
ProgressReports(n) ==
    {[fetched |-> n, requested |-> MaxCallbacks,
      percent |-> (n * 100) \div MaxCallbacks]}

\* One turn of the loop of process_main: the call of _pull for the next
\* branch, or the return of process_main after the last one.
Pull ==
    /\ pc = "pull"
    /\ started' = IF pullIdx = 0 /\ inflight = {} THEN Enter("pull") ELSE started
    /\ IF pullIdx + Cardinality(inflight) = Len(branches)
       THEN /\ inflight = {}
            /\ pc' = NextChild("pull")
            /\ completed' = completed \cup {"pull"}
            /\ UNCHANGED fetchVars
       ELSE /\ MayPull
            /\ inflight' = inflight \cup {pullIdx + Cardinality(inflight) + 1}
            /\ callbacks' = <<>>
            /\ reports' = <<>>
            /\ UNCHANGED <<pc, completed>>
    /\ UNCHANGED <<config, run, error, calls, pullIdx, refs, addIdx, saved,
                   workdir, keyring, dirs, mirror, heads, remotes, fs,
                   startMirror, createReg, prevReg, otherRun>>

\* The library calls report_progress while pull() runs.
PullProgress ==
    /\ pc = "pull"
    /\ Len(callbacks) < MaxCallbacks
    /\ \E i \in inflight, report \in ProgressReports(Len(callbacks) + 1) :
         /\ callbacks' = Append(callbacks, [branch |-> branches[i], report |-> report])
         /\ reports' = ReportProgress(reports, ProgressDetails(branches[i], report))
    /\ UNCHANGED <<config, run, pc, started, completed, error, calls, pullIdx,
                   refs, addIdx, saved, workdir, keyring, dirs, mirror, heads,
                   remotes, fs, startMirror, createReg, prevReg, inflight,
                   otherRun>>

\* pull() returns, or raises LibError.
PullReturn ==
    /\ pc = "pull"
    /\ \E i \in inflight, res \in Outcomes :
         LET branch_id == branches[i] IN
         /\ calls' = Append(calls, Call("pull", <<PullRemoteId, branch_id>>, res))
         /\ heads' = IF res = "ok" THEN Pulled(heads, branch_id) ELSE heads
         /\ inflight' = inflight \ {i}
         /\ callbacks' = <<>>
         /\ reports' = <<>>
         /\ IF PullRaises(res)
            THEN /\ pc' = AfterRaise("pull")
                 /\ error' = PullError(branch_id, res)
                 /\ UNCHANGED <<pullIdx, completed>>
            ELSE /\ pullIdx' = pullIdx + 1
                 /\ UNCHANGED <<pc, completed, error>>
    /\ UNCHANGED <<config, run, started, refs, addIdx, saved, workdir, keyring,
                   dirs, mirror, remotes, fs, startMirror, createReg, prevReg,
                   otherRun>>

\* -------------------------------------------------------------------- Add
NoEntry == [t |-> "none", to |-> NoPath]
Symlink(target) == [t |-> "link", to |-> target]
RegularFile == [t |-> "file", to |-> NoPath]
OtherTarget == <<SHARED_STORAGE, generate_remote_id("other"), CONTENT_DIR>>

LinkPaths == {UnitStoragePath(remote_id, b) : b \in BranchNames}

\* lib.Repository.list_refs: the heads of the mirror, in no promised order.
Ref(b, commit) == [path |-> b, commit |-> commit]

ListRefs(hs) ==
    {[i \in 1..Len(p) |-> Ref(p[i], hs[p[i]])] :
        p \in Perms({b \in DOMAIN hs : hs[b] # ""})}

\* os.symlink: EEXIST when the path is taken; a free path may still be refused.
SymlinkOutcomes(entry) ==
    IF entry.t = "none" THEN {"ok", "EACCES"} ELSE {"EEXIST"}

\* Variant: EEXIST is accepted without looking at what is there.
LinkRaisesUnlessExists(errno, entry, target) == errno # "EEXIST"

\* Add.link: whether the OSError of os.symlink is raised again.
LinkRaises(errno, entry, target) ==
    ~(errno = "EEXIST" /\ entry.t = "link" /\ entry.to = target)

\* Variant: every head of the mirror is taken.
ListedAny(ref) == TRUE

\* Add.process_main: a ref that is not a configured branch is passed over.
Listed(ref) == ref.path \in Range(branches)

\* Add.link: the target of every link.
LinkTarget == storage_path

\* Variant: save_unit comes before link(unit).
SaveBeforeLinkAlways == TRUE

\* Add.process_main: link(unit) comes before save_unit, so a unit whose link
\* raised is not saved.
SaveBeforeLink == FALSE

AddPc(n) == IF n = Len(refs) THEN NextChild("add") ELSE "add"

AddDone(n) == IF n = Len(refs) THEN completed \cup {"add"} ELSE completed

AddListRefs ==
    /\ pc = "add"
    /\ addIdx = -1
    /\ started' = Enter("add")
    /\ \E res \in Outcomes :
         /\ calls' = Append(calls, Call("list_refs", storage_path, res))
         /\ IF res = "ok"
            THEN \E rs \in ListRefs(heads) :
                   /\ refs' = rs
                   /\ addIdx' = 0
                   /\ pc' = IF rs = <<>> THEN NextChild("add") ELSE "add"
                   /\ completed' = IF rs = <<>> THEN completed \cup {"add"}
                                   ELSE completed
                   /\ error' = error
            ELSE /\ pc' = AfterRaise("add")
                 /\ error' = Raw(LibError, res)
                 /\ UNCHANGED <<refs, addIdx, completed>>
    /\ UNCHANGED <<config, run, pullIdx, saved, workdir, keyring, dirs, mirror,
                   heads, remotes, fs, startMirror, createReg, prevReg>>
    /\ UNCHANGED <<fetchVars, otherRun>>

AddRef ==
    /\ pc = "add"
    /\ addIdx >= 0
    /\ addIdx < Len(refs)
    /\ LET ref == refs[addIdx + 1]
           unit == ModelUnit(remote_id, ref.path, ref.commit)
           link == unit.storage_path
       IN  IF ~Listed(ref)
           THEN /\ addIdx' = addIdx + 1
                /\ pc' = AddPc(addIdx + 1)
                /\ completed' = AddDone(addIdx + 1)
                /\ UNCHANGED <<calls, fs, saved, error>>
           ELSE \E errno \in SymlinkOutcomes(fs[link]) :
                  /\ calls' = Append(calls, Call("symlink", link, errno))
                  /\ fs' = IF errno = "ok"
                           THEN [fs EXCEPT ![link] = Symlink(LinkTarget)] ELSE fs
                  /\ IF errno # "ok" /\ LinkRaises(errno, fs[link], LinkTarget)
                     THEN /\ pc' = AfterRaise("add")
                          /\ error' = Raw(OSError, errno)
                          /\ saved' = IF SaveBeforeLink
                                      THEN Append(saved, unit) ELSE saved
                          /\ UNCHANGED <<addIdx, completed>>
                     ELSE /\ saved' = Append(saved, unit)
                          /\ addIdx' = addIdx + 1
                          /\ pc' = AddPc(addIdx + 1)
                          /\ completed' = AddDone(addIdx + 1)
                          /\ error' = error
    /\ UNCHANGED <<config, run, started, pullIdx, refs, workdir, keyring, dirs,
                   mirror, heads, remotes, startMirror, createReg, prevReg>>
    /\ UNCHANGED <<fetchVars, otherRun>>

\* ------------------------------------------------------------------ Clean
\* Variant: the remote deleted is named after the feed.
CleanFeedRemoteId == remote_id

\* Clean.process_main: the remote deleted is the one named after the repository.
CleanRemoteId == repo_id

CleanError(id, reason) == PulpCodedException(OST0003, "id", <<id>>, reason)

Clean ==
    /\ pc = "clean"
    /\ started' = Enter("clean")
    /\ \E res \in Outcomes :
         /\ calls' = Append(calls, Call("delete", <<CleanRemoteId>>, res))
         /\ IF res = "ok"
            THEN /\ remotes' = RemoteDelete(remotes, CleanRemoteId)
                 /\ pc' = NextChild("clean")
                 /\ completed' = completed \cup {"clean"}
                 /\ error' = error
            ELSE /\ pc' = AfterRaise("clean")
                 /\ error' = CleanError(CleanRemoteId, res)
                 /\ UNCHANGED <<remotes, completed>>
    /\ UNCHANGED <<config, run, pullIdx, refs, addIdx, saved, workdir, keyring,
                   dirs, mirror, heads, fs, startMirror, createReg, prevReg>>
    /\ UNCHANGED <<fetchVars, otherRun>>

\* ------------------------------------------------------------ the next run
Ended == pc \in {"done", "failed"}

FreshWorkdir == [n \in {"key.pem", "cert.pem", "ca.pem"} |-> NoFile]

\* The repository is synchronised again: a new Main, a new working directory,
\* the same configuration, and the shared storage as the last run left it.
StartRun ==
    /\ Ended
    /\ run < MaxRuns
    /\ run' = run + 1
    /\ pc' = "create"
    /\ started' = <<>>
    /\ completed' = {}
    /\ error' = NoError
    /\ calls' = <<>>
    /\ pullIdx' = 0
    /\ refs' = <<>>
    /\ addIdx' = -1
    /\ saved' = <<>>
    /\ workdir' = FreshWorkdir
    /\ keyring' = <<>>
    /\ startMirror' = mirror
    /\ prevReg' = createReg
    /\ createReg' = NoReg
    /\ UNCHANGED <<config, dirs, mirror, heads, remotes, fs>>
    /\ UNCHANGED <<fetchVars, otherRun>>

\* ------------------------------------------------------------------- Init
RemoteConfigs ==
    {[ssl_client_key |-> "", ssl_client_cert |-> "", ssl_ca_cert |-> "",
      ssl_validation |-> FALSE, proxy_host |-> "", proxy_port |-> 0,
      proxy_user |-> "", proxy_pass |-> "", gpg_keys |-> <<>>],
     [ssl_client_key |-> "KEY", ssl_client_cert |-> "CERT", ssl_ca_cert |-> "CA",
      ssl_validation |-> TRUE, proxy_host |-> "host", proxy_port |-> PROXY_PORT,
      proxy_user |-> "user", proxy_pass |-> "secret",
      gpg_keys |-> <<"key1", "junk">>]}

Config(bs, rc) ==
    [feed |-> FEED, branches |-> bs,
     ssl_client_key |-> rc.ssl_client_key, ssl_client_cert |-> rc.ssl_client_cert,
     ssl_ca_cert |-> rc.ssl_ca_cert, ssl_validation |-> rc.ssl_validation,
     proxy_host |-> rc.proxy_host, proxy_port |-> rc.proxy_port,
     proxy_user |-> rc.proxy_user, proxy_pass |-> rc.proxy_pass,
     gpg_keys |-> rc.gpg_keys]

Configs == {Config(bs, rc) : bs \in SeqsUpTo(BranchNames, MaxBranches),
                             rc \in RemoteConfigs}

\* Link paths as earlier runs, or another repository, may have left them.
InitialFs ==
    {f \in [LinkPaths -> {NoEntry, Symlink(storage_path),
                          Symlink(OtherTarget), RegularFile}] :
        Cardinality({p \in LinkPaths : f[p] # NoEntry}) <= 1}

\* No other repository is being synchronised.
NoRun == [pc |-> "none"]

Init ==
    /\ config \in Configs
    /\ run = 1
    /\ pc = "create"
    /\ started = <<>>
    /\ completed = {}
    /\ error = NoError
    /\ calls = <<>>
    /\ pullIdx = 0
    /\ refs = <<>>
    /\ addIdx = -1
    /\ saved = <<>>
    /\ workdir = FreshWorkdir
    /\ keyring = <<>>
    /\ mirror \in BOOLEAN
    /\ dirs = IF mirror THEN {storage_path, links_path} ELSE {}
    /\ heads \in IF mirror THEN [BranchNames -> {"", "c1"}]
                 ELSE {[b \in BranchNames |-> ""]}
    /\ remotes = {}
    /\ fs \in IF mirror THEN InitialFs ELSE {[p \in LinkPaths |-> NoEntry]}
    /\ startMirror = mirror
    /\ createReg = NoReg
    /\ prevReg = NoReg
    /\ inflight = {}
    /\ callbacks = <<>>
    /\ reports = <<>>
    /\ active = 1
    /\ parked = NoRun

Next ==
    \/ Create
    \/ Pull
    \/ PullProgress
    \/ PullReturn
    \/ AddListRefs
    \/ AddRef
    \/ Clean
    \/ StartRun

Spec == Init /\ [][Next]_vars

\* ----------------------------------------------- two repositories, one feed
\* Two repositories with the same feed share the mirror; each is synchronised
\* by its own Main, in its own working directory, and their steps interleave.
ThisRun ==
    [config |-> config, run |-> run, pc |-> pc, started |-> started,
     completed |-> completed, error |-> error, calls |-> calls,
     pullIdx |-> pullIdx, refs |-> refs, addIdx |-> addIdx, saved |-> saved,
     workdir |-> workdir, keyring |-> keyring, startMirror |-> startMirror,
     createReg |-> createReg, prevReg |-> prevReg, inflight |-> inflight,
     callbacks |-> callbacks, reports |-> reports]

\* The next step is taken by the run of the other repository.
Switch ==
    /\ parked.pc \notin {"none", "done", "failed"}
    /\ active' = 3 - active
    /\ parked' = ThisRun
    /\ config' = parked.config
    /\ run' = parked.run
    /\ pc' = parked.pc
    /\ started' = parked.started
    /\ completed' = parked.completed
    /\ error' = parked.error
    /\ calls' = parked.calls
    /\ pullIdx' = parked.pullIdx
    /\ refs' = parked.refs
    /\ addIdx' = parked.addIdx
    /\ saved' = parked.saved
    /\ workdir' = parked.workdir
    /\ keyring' = parked.keyring
    /\ startMirror' = parked.startMirror
    /\ createReg' = parked.createReg
    /\ prevReg' = parked.prevReg
    /\ inflight' = parked.inflight
    /\ callbacks' = parked.callbacks
    /\ reports' = parked.reports
    /\ UNCHANGED <<dirs, mirror, heads, remotes, fs>>

InitTwo ==
    /\ mirror \in BOOLEAN
    /\ \E rc \in RemoteConfigs, rc2 \in RemoteConfigs :
         /\ rc # rc2
         /\ config = Config(<<"b1">>, rc)
         /\ parked = [config |-> Config(<<"b2">>, rc2), run |-> 1, pc |-> "create",
                      started |-> <<>>, completed |-> {}, error |-> NoError,
                      calls |-> <<>>, pullIdx |-> 0, refs |-> <<>>, addIdx |-> -1,
                      saved |-> <<>>, workdir |-> FreshWorkdir, keyring |-> <<>>,
                      startMirror |-> mirror, createReg |-> NoReg,
                      prevReg |-> NoReg, inflight |-> {}, callbacks |-> <<>>,
                      reports |-> <<>>]
    /\ run = 1
    /\ pc = "create"
    /\ started = <<>>
    /\ completed = {}
    /\ error = NoError
    /\ calls = <<>>
    /\ pullIdx = 0
    /\ refs = <<>>
    /\ addIdx = -1
    /\ saved = <<>>
    /\ workdir = FreshWorkdir
    /\ keyring = <<>>
    /\ dirs = IF mirror THEN {storage_path, links_path} ELSE {}
    /\ heads = [b \in BranchNames |-> ""]
    /\ remotes = {}
    /\ fs = [p \in LinkPaths |-> NoEntry]
    /\ startMirror = mirror
    /\ createReg = NoReg
    /\ prevReg = NoReg
    /\ inflight = {}
    /\ callbacks = <<>>
    /\ reports = <<>>
    /\ active = 1

NextTwo ==
    \/ Create
    \/ Pull
    \/ PullProgress
    \/ PullReturn
    \/ AddListRefs
    \/ AddRef
    \/ Clean
    \/ Switch

SpecTwo == InitTwo /\ [][NextTwo]_vars

\* ------------------------------------------- Create over all remote options
\* Every combination of the options Remote reads from the configuration.
RemoteSpace ==
    {[ssl_client_key |-> key, ssl_client_cert |-> cert, ssl_ca_cert |-> ca,
      ssl_validation |-> val, proxy_host |-> host, proxy_port |-> port,
      proxy_user |-> user, proxy_pass |-> pass, gpg_keys |-> blobs] :
        key \in {"", "KEY"}, cert \in {"", "CERT"}, ca \in {"", "CA"},
        val \in BOOLEAN, host \in {"", "host"}, port \in {0, PROXY_PORT},
        user \in {"", "user"}, pass \in {"", "secret"},
        blobs \in SeqsUpTo({"key1", "key2", "junk"}, MaxKeys)}

InitRemote ==
    /\ config \in {Config(<<"b1">>, rc) : rc \in RemoteSpace}
    /\ run = 1
    /\ pc = "create"
    /\ started = <<>>
    /\ completed = {}
    /\ error = NoError
    /\ calls = <<>>
    /\ pullIdx = 0
    /\ refs = <<>>
    /\ addIdx = -1
    /\ saved = <<>>
    /\ workdir = FreshWorkdir
    /\ keyring = <<>>
    /\ mirror = FALSE
    /\ dirs = {}
    /\ heads = [b \in BranchNames |-> ""]
    /\ remotes = {}
    /\ fs = [p \in LinkPaths |-> NoEntry]
    /\ startMirror = mirror
    /\ createReg = NoReg
    /\ prevReg = NoReg
    /\ inflight = {}
    /\ callbacks = <<>>
    /\ reports = <<>>
    /\ active = 1
    /\ parked = NoRun

NextRemote == Create

SpecRemote == InitRemote /\ [][NextRemote]_vars

\* -------------------------------------- Create, the key file step by step
\* Create.process_main up to Remote.add: the directories, open() and create(),
\* then the key ring read by Remote.gpg_keys.
CreateOpen ==
    /\ pc = "create"
    /\ \E o \in OpenOutcomes(mirror) :
       \E c \in IF NeedCreate(o) THEN Outcomes ELSE {"ok"} :
         LET op == Call("open", storage_path, o)
             cr == Call("create", storage_path, c)
         IN  /\ started' = Enter("create")
             /\ dirs' = dirs \cup {storage_path, links_path}
             /\ calls' = calls \o (IF NeedCreate(o) THEN <<op, cr>> ELSE <<op>>)
             /\ IF NeedCreate(o) /\ c # "ok"
                THEN /\ pc' = AfterRaise("create")
                     /\ error' = CreateError(c)
                     /\ UNCHANGED <<mirror, keyring>>
                ELSE /\ pc' = "key_open"
                     /\ mirror' = (NeedCreate(o) \/ mirror)
                     /\ keyring' = gpg_keys(config, keyring)
                     /\ error' = error
    /\ UNCHANGED <<config, run, completed, pullIdx, refs, addIdx, saved, workdir,
                   heads, remotes, fs, startMirror, createReg, prevReg>>
    /\ UNCHANGED <<fetchVars, otherRun>>

KeyStep(from, to, wd) ==
    /\ pc = from
    /\ pc' = to
    /\ workdir' = wd
    /\ UNCHANGED <<config, run, started, completed, error, calls, pullIdx, refs,
                   addIdx, saved, keyring, dirs, mirror, heads, remotes, fs,
                   startMirror, createReg, prevReg>>
    /\ UNCHANGED <<fetchVars, otherRun>>

\* Remote.ssl_key_path: nothing is written without a configured key.
KeyOpenStep ==
    IF config.ssl_client_key # ""
    THEN KeyStep("key_open", "key_write", KeyOpen(workdir))
    ELSE KeyStep("key_open", "add_remote", workdir)

KeyWriteStep ==
    /\ config.ssl_client_key # ""
    /\ KeyStep("key_write", "key_chmod", KeyWrite(workdir, config.ssl_client_key))

KeyChmodStep ==
    /\ config.ssl_client_key # ""
    /\ KeyStep("key_chmod", "add_remote", KeyChmod(workdir))

\* The rest of Remote.add, and how _init_repository ends.
CreateUpdate ==
    /\ pc = "add_remote"
    /\ \E u \in Outcomes :
       \E k \in IF u = "ok" THEN Outcomes ELSE {"ok"} :
         LET add == RemoteAdd(config, remotes, keyring, u, k)
         IN  /\ workdir' = CertFiles(config, workdir)
             /\ calls' = calls \o add.calls
             /\ remotes' = add.remotes
             /\ IF add.raised = ""
                THEN /\ pc' = NextChild("create")
                     /\ completed' = completed \cup {"create"}
                     /\ error' = error
                     /\ createReg' = Registered(add.remotes, repo_id)
                ELSE /\ pc' = AfterRaise("create")
                     /\ error' = CreateError(add.raised)
                     /\ UNCHANGED <<completed, createReg>>
    /\ UNCHANGED <<config, run, started, pullIdx, refs, addIdx, saved, keyring,
                   dirs, mirror, heads, fs, startMirror, prevReg>>
    /\ UNCHANGED <<fetchVars, otherRun>>

NextKey ==
    \/ CreateOpen
    \/ KeyOpenStep
    \/ KeyWriteStep
    \/ KeyChmodStep
    \/ CreateUpdate

SpecKey == InitRemote /\ [][NextKey]_vars

\* ================================================================= claims
PullCalls == SelectSeq(calls, LAMBDA c : c.op = "pull")

CreateCalls ==
    SelectSeq(calls, LAMBDA c : c.op \in {"open", "create", "update", "import_key"})

Typed == {OST0001, OST0002, OST0003}

Earlier == {"create", "pull", "add"}

HeadsListed == {b \in BranchNames : heads[b] # "" /\ b \in Range(branches)}

\* C1: in every run in which Create succeeded, Clean is attempted, also when
\* Pull or Add failed: no run ends with Create succeeded and Clean never
\* entered.
C1_CleanAttemptedAfterCreate ==
    (Ended /\ "create" \in completed) => "clean" \in Range(started)

\* C2: the children run in the order Create, Pull, Add, Clean, each at most
\* once; Pull starts only after Create succeeded, Add only after every
\* configured branch was pulled successfully, Clean only when no earlier child
\* is still in progress, and a run that ends without failure went through all
\* four.
C2_StagesInOrder ==
    /\ IsPrefix(started, Children)
    /\ "pull" \in Range(started) => "create" \in completed
    /\ "add" \in Range(started) =>
          /\ "pull" \in completed
          /\ Len(PullCalls) = Len(branches)
          /\ \A j \in 1..Len(PullCalls) :
                PullCalls[j].arg[2] = branches[j] /\ PullCalls[j].res = "ok"
    /\ "clean" \in Range(started) =>
          /\ pc \notin Earlier
          /\ \A s \in Earlier : s \in Range(started) =>
                (s \in completed \/ error # NoError)
    /\ pc = "done" =>
          started = Children /\ completed = Range(Children) /\ error = NoError

C2_Witness == pc = "done" /\ Len(branches) = 2 /\ Len(PullCalls) = 2

\* C3: the pulls follow the branch list, and the first failing pull is the
\* last one: no later branch is fetched, Add is not entered, and the run
\* reports OST0002 with that branch and the reason the library gave.
C3_PullAbortsOnFirstFailure ==
    /\ Len(PullCalls) <= Len(branches)
    /\ \A j \in 1..Len(PullCalls) :
          /\ PullCalls[j].arg[2] = branches[j]
          /\ Failed(PullCalls[j]) =>
                /\ j = Len(PullCalls)
                /\ "add" \notin Range(started)
                /\ error = PullError(branches[j], PullCalls[j].res)

C3_Witness ==
    /\ Len(branches) = 2
    /\ Len(PullCalls) = 1
    /\ Failed(PullCalls[1])
    /\ Ended

C5_CreateOnlyWhenAbsent ==
    \A i \in 1..Len(calls) :
        /\ calls[i].op = "create" => (i > 1 /\ calls[i - 1].res = "notfound")
        /\ (calls[i].op = "open" /\ calls[i].res \notin {"ok", "notfound"}) =>
              /\ \A j \in 1..Len(calls) : calls[j].op \notin {"create", "update"}
              /\ error = CreateError(calls[i].res)

C7_LinkStep ==
    (Len(calls') = Len(calls) + 1 /\ Last(calls').op = "symlink") =>
        LET c == Last(calls')
            e == fs[c.arg]
        IN  /\ \A q \in LinkPaths \ {c.arg} : fs'[q] = fs[q]
            /\ e = NoEntry =>
                  \/ /\ c.res = "ok"
                     /\ fs'[c.arg] = Symlink(storage_path)
                     /\ error' = NoError
                     /\ Len(saved') = Len(saved) + 1
                  \/ /\ c.res \notin {"ok", "EEXIST"}
                     /\ fs' = fs
                     /\ error' = Raw(OSError, c.res)
            /\ e = Symlink(storage_path) =>
                  /\ fs' = fs
                  /\ error' = NoError
                  /\ pc' # "failed"
                  /\ Len(saved') = Len(saved) + 1
            /\ (e # NoEntry /\ e # Symlink(storage_path)) =>
                  /\ fs' = fs
                  /\ pc' = "failed"
                  /\ error' = Raw(OSError, "EEXIST")
                  /\ saved' = saved

\* C7: link creates the symlink when the path is free, changes nothing and
\* succeeds when the path holds a symlink to the mirror, and fails, leaving
\* the entry as it is, when the path holds another symlink or a file.
C7_LinkIdempotent == [][C7_LinkStep]_vars

C7_Witness ==
    /\ \E i \in 1..Len(calls) :
          calls[i].op = "symlink" /\ calls[i].res = "EEXIST"
    /\ error = NoError
    /\ saved # <<>>

\* C8: a run that started without a mirror and ended without failure leaves
\* the mirror in place, one saved unit for every configured branch that has a
\* head, each with its storage path a symlink to the mirror, and no remote
\* registered under the repository id.
C8_RunFromAbsentMirror ==
    (pc = "done" /\ ~startMirror) =>
        /\ mirror
        /\ Registered(remotes, repo_id) = {}
        /\ \A b \in HeadsListed :
              /\ Cardinality({i \in 1..Len(saved) : saved[i].branch = b}) = 1
              /\ fs[UnitStoragePath(remote_id, b)] = Symlink(storage_path)
        /\ \A i \in 1..Len(saved) :
              /\ saved[i].branch \in HeadsListed
              /\ saved[i].storage_path = UnitStoragePath(remote_id, saved[i].branch)

C8_Witness ==
    /\ pc = "done"
    /\ ~startMirror
    /\ Len(saved) = 2
    /\ config.gpg_keys # <<>>

\* C9: when Create runs again on the mirror a successful Create left, with
\* the same configuration and no library call failing, it completes, does not
\* call create(), and leaves one registration under the repository id, equal
\* to the one the earlier Create left.
C9_CreateIdempotent ==
    (/\ run >= 2
     /\ prevReg # NoReg
     /\ "create" \in Range(started)
     /\ \A i \in 1..Len(CreateCalls) : CreateCalls[i].res = "ok") =>
        /\ "create" \in completed
        /\ \A i \in 1..Len(calls) : calls[i].op # "create"
        /\ createReg = prevReg
        /\ Cardinality(createReg) = 1

C9_Witness ==
    /\ run = 2
    /\ prevReg # NoReg
    /\ pc = "pull"
    /\ createReg = prevReg
    /\ Registered(remotes, repo_id) = createReg
    /\ \E r \in createReg : r.keys # {}

\* C10: the failure of a library call that ends the run reaches the host as a
\* coded error with its context: OST0001 with the path for the calls of
\* Create, OST0002 with the branch for a pull, OST0003 with the id for the
\* delete, and a coded error as well for list_refs in Add.
C10_EngineFailuresTyped ==
    (pc = "failed" /\ calls # <<>> /\ Failed(Last(calls))
        /\ Last(calls).op # "symlink") =>
        LET c == Last(calls) IN
        /\ error.code \in Typed
        /\ error.reason = c.res
        /\ c.op \in {"open", "create", "update", "import_key"} =>
              error = CreateError(c.res)
        /\ c.op = "pull" => error = PullError(c.arg[2], c.res)
        /\ c.op = "delete" => error = CleanError(c.arg[1], c.res)

\* The two runs that share the mirror, as far as their remotes go.
BothRuns ==
    {[id |-> RepoIdOf(active), started |-> started, completed |-> completed,
      createReg |-> createReg],
     [id |-> RepoIdOf(3 - active), started |-> parked.started,
      completed |-> parked.completed, createReg |-> parked.createReg]}

\* C11: with two runs of distinct repository ids interleaved on one mirror,
\* the remote a run registered in Create stays registered, as Create left
\* it, until that run's own Clean: the other run's Create and Clean neither
\* replace nor remove it.
C11_RemotesDoNotClobber ==
    \A r \in BothRuns :
        ("create" \in r.completed /\ "clean" \notin Range(r.started)) =>
            /\ Cardinality(r.createReg) = 1
            /\ Registered(remotes, r.id) = r.createReg

C11_Witness ==
    /\ pc = "done"
    /\ "create" \in parked.completed
    /\ "clean" \notin Range(parked.started)
    /\ Registered(remotes, RepoIdOf(3 - active)) = parked.createReg
    /\ parked.createReg # NoReg
    /\ Registered(remotes, repo_id) = {}
    /\ createReg # parked.createReg

\* Create raised after update() had registered the remote: import_key failed.
ImportKeyFailed ==
    \E i \in 1..Len(calls) : calls[i].op = "import_key" /\ calls[i].res # "ok"

\* C12: when Create fails with the remote already registered (update() ok,
\* import_key() failed), Clean still runs, and once the run has ended the
\* run's remote is no longer registered in the mirror.
C12_CleanAfterPartialCreate ==
    (Ended /\ ImportKeyFailed) =>
        /\ "clean" \in Range(started)
        /\ ("clean" \in completed => Registered(remotes, repo_id) = {})

\* The remote of this run, as update() registered it.
MyRemotes == Registered(remotes, repo_id)

\* C13: the proxy URL of the registered remote is absent when host or port
\* is missing, user:password@host:port when all four are configured, and
\* host:port in every other case (user alone, password alone, neither).
C13_ProxyUrlCases ==
    \A r \in MyRemotes :
        LET hostport == <<config.proxy_host, ":">> \o Str(config.proxy_port)
        IN  r.ep.proxy_url =
                IF config.proxy_host = "" \/ config.proxy_port = 0 THEN NoPath
                ELSE IF config.proxy_user # "" /\ config.proxy_pass # ""
                THEN <<config.proxy_user, ":", config.proxy_pass, "@">> \o hostport
                ELSE hostport

C13_Witness ==
    /\ config.proxy_user = "user"
    /\ config.proxy_pass = ""
    /\ \E r \in MyRemotes : r.ep.proxy_url = <<"host", ":", "3", "1", "2", "8">>

\* Remote.add got as far as update(): the endpoint has been computed.
EndpointComputed == \E i \in 1..Len(calls) : calls[i].op = "update"

\* The key ids gnupg can resolve from the configured blobs.
Resolvable == {KeyIdOf(blob) : blob \in Range(config.gpg_keys)} \ {""}

\* C14: the keyring read back after the imports holds exactly the ids of
\* the blobs that imported; the registered remote validates signatures iff
\* that set is non-empty; once Create completed, the keys the remote trusts
\* are exactly that set; and Create fails only on a failure of the engine,
\* never on a blob that did not import.
C14_GpgTrustIsReadBack ==
    /\ EndpointComputed => Range(keyring) = Resolvable
    /\ \A r \in MyRemotes : r.ep.gpg_validation = (Range(keyring) # {})
    /\ "create" \in completed =>
           /\ MyRemotes # {}
           /\ \A r \in MyRemotes : r.keys = Range(keyring)
    /\ pc = "failed" =>
           /\ Last(calls).op \in {"create", "update", "import_key"}
           /\ Last(calls).res \in Reasons
           /\ error.reason = Last(calls).res

C14_Witness ==
    /\ "create" \in completed
    /\ config.gpg_keys = <<"junk", "key1">>
    /\ \E r \in MyRemotes : r.ep.gpg_validation /\ r.keys = {"K1"}

\* The path the registered endpoint has for a file of the working directory.
PathFor(name, path) ==
    IF workdir[name].present THEN path = WorkPath(name) ELSE path = NoPath

\* C15: once the endpoint has been computed, key.pem, cert.pem and ca.pem
\* exist iff their configuration value is present, key.pem has mode 0600
\* and holds the key, and the endpoint has a path exactly for the files
\* that were written.
C15_SslFilesIffConfigured ==
    EndpointComputed =>
        /\ workdir["key.pem"].present = (config.ssl_client_key # "")
        /\ workdir["cert.pem"].present = (config.ssl_client_cert # "")
        /\ workdir["ca.pem"].present = (config.ssl_ca_cert # "")
        /\ workdir["key.pem"].present =>
               /\ workdir["key.pem"].mode = KeyMode
               /\ workdir["key.pem"].content = config.ssl_client_key
        /\ \A r \in MyRemotes :
               /\ PathFor("key.pem", r.ep.ssl_key_path)
               /\ PathFor("cert.pem", r.ep.ssl_cert_path)
               /\ PathFor("ca.pem", r.ep.ssl_ca_path)

C15_Witness ==
    /\ EndpointComputed
    /\ workdir["key.pem"] = WriteFile("KEY", KeyMode)
    /\ ~workdir["cert.pem"].present
    /\ workdir["ca.pem"].present
    /\ \E r \in MyRemotes :
           /\ r.ep.ssl_key_path = WorkPath("key.pem")
           /\ r.ep.ssl_cert_path = NoPath

\* C16: at most one fetch of the run is in progress; it is the fetch of the
\* branch after the ones already fetched, all of which returned ok; the
\* fetches made name the run's remote and one branch each, in the order of
\* the branch list; and a failed fetch is the last one, nothing is fetched
\* again after it.
C16_PullsOneAtATime ==
    /\ Cardinality(inflight) <= 1
    /\ inflight # {} =>
           /\ pc = "pull"
           /\ inflight = {pullIdx + 1}
           /\ Len(PullCalls) = pullIdx
           /\ \A j \in 1..Len(PullCalls) : ~Failed(PullCalls[j])
    /\ Len(PullCalls) <= Len(branches)
    /\ \A j \in 1..Len(PullCalls) :
           /\ PullCalls[j].arg = <<repo_id, branches[j]>>
           /\ Failed(PullCalls[j]) => j = Len(PullCalls) /\ inflight = {}

C16_Witness ==
    /\ inflight = {2}
    /\ Len(PullCalls) = 1
    /\ ~Failed(PullCalls[1])
    /\ branches = <<"b2", "b1">>

\* C17: during a fetch there is one forced report per progress callback, in
\* the order of the callbacks; each names the branch being fetched and
\* carries the fetched, requested and percent values of its callback.
C17_OneForcedReportPerCallback ==
    /\ Len(reports) = Len(callbacks)
    /\ callbacks # <<>> => inflight = {pullIdx + 1}
    /\ \A i \in 1..Len(callbacks) :
           /\ i <= Len(reports)
           /\ reports[i].force
           /\ reports[i].details[2] = branches[pullIdx + 1]
           /\ callbacks[i].branch = branches[pullIdx + 1]
           /\ reports[i].details[4] = Str(callbacks[i].report.fetched)
           /\ reports[i].details[6] = Str(callbacks[i].report.requested)
           /\ reports[i].details[8] = Str(callbacks[i].report.percent)

C17_Witness ==
    /\ pullIdx = 1
    /\ branches = <<"b1", "b2">>
    /\ Len(callbacks) = 2
    /\ reports[1].details[8] = <<"5", "0">>
    /\ reports[2].details[8] = <<"1", "0", "0">>
    /\ reports[2].details[2] = "b2"

SymlinkCalls == SelectSeq(calls, LAMBDA c : c.op = "symlink")

\* The configured heads among the first n enumerated.
ListedUpTo(n) == SelectSeq(SubSeq(refs, 1, n), LAMBDA r : Listed(r))

UnitOf(ref) == ModelUnit(remote_id, ref.path, ref.commit)

\* Add has stopped on the link of the head it was at.
LinkFailed == pc = "failed" /\ calls # <<>> /\ Last(calls).op = "symlink"

\* C18: every unit the run has saved has, as its storage path, a symlink to
\* the mirror; the saved units are the configured heads enumerated so far,
\* in order, one link call each; and when a link fails, the unit it was for
\* is not saved, its path is no link to the mirror, and no head enumerated
\* after it has been given a link call or been saved.
C18_SavedOnlyWhenLinked ==
    /\ \A i \in 1..Len(saved) : fs[saved[i].storage_path] = Symlink(storage_path)
    /\ addIdx >= 0 =>
           /\ Len(saved) = Len(ListedUpTo(addIdx))
           /\ \A i \in 1..Len(saved) : saved[i] = UnitOf(ListedUpTo(addIdx)[i])
    /\ addIdx < 0 => saved = <<>> /\ SymlinkCalls = <<>>
    /\ (addIdx >= 0 /\ ~LinkFailed) => Len(SymlinkCalls) = Len(saved)
    /\ LinkFailed =>
           LET unit == UnitOf(refs[addIdx + 1]) IN
           /\ Len(SymlinkCalls) = Len(saved) + 1
           /\ Last(calls).arg = unit.storage_path
           /\ unit \notin Range(saved)
           /\ fs[unit.storage_path] # Symlink(storage_path)

C18_Witness ==
    /\ LinkFailed
    /\ Last(calls).res = "EEXIST"
    /\ Len(saved) = 1
    /\ Len(refs) = 2
    /\ addIdx = 1

\* C19: the remote that Create registers, that every fetch names and that
\* Clean removes is named by the repository id; the id derived from the feed
\* names the mirror's storage path and owns the units, differs from the
\* repository id, and is never the name of a registered or removed remote.
C19_OneRemoteIdentity ==
    /\ repo_id # remote_id
    /\ storage_path = <<SHARED_STORAGE, remote_id, CONTENT_DIR>>
    /\ \A r \in remotes : r.id = repo_id
    /\ \A i \in 1..Len(calls) :
           /\ calls[i].op \in {"update", "import_key", "delete"} =>
                  calls[i].arg = <<repo_id>>
           /\ calls[i].op = "pull" => calls[i].arg[1] = repo_id
           /\ calls[i].op \in {"open", "create", "list_refs"} =>
                  calls[i].arg = storage_path
    /\ \A i \in 1..Len(saved) : saved[i].remote_id = remote_id

C19_Witness ==
    /\ pc = "done"
    /\ saved # <<>>
    /\ \E i, j, k \in 1..Len(calls) :
           /\ calls[i].op = "update" /\ calls[i].arg = <<REPO_ID>>
           /\ calls[j].op = "pull" /\ calls[j].arg[1] = REPO_ID
           /\ calls[k].op = "delete" /\ calls[k].arg = <<REPO_ID>>
                /\ calls[k].res = "ok"
    /\ remotes = {}

\* C20: at every step of writing the private key, a key.pem that holds key
\* material has mode 0600.
C20_KeyNeverWiderThan0600 ==
    (workdir["key.pem"].present /\ workdir["key.pem"].content # "") =>
        workdir["key.pem"].mode = KeyMode

====
